---- MODULE Spec2Model ----
(***************************************************************************)
(* Model of src/markov_city.py: class MarkovCity, the constructor and      *)
(* get_building_info with its helpers get_next_height / get_next_color,    *)
(* and numpy's np.random.choice(a, p=...) as the source calls it.          *)
(*                                                                         *)
(* Probabilities and uniform draws are integers in units of 1/Denom: the   *)
(* probability 1.0 is Denom, a draw u in [0,1) is a member of 0..Denom-1.  *)
(* A Python dict is the sequence of its <<key, value>> items in insertion  *)
(* order, so that list(d.keys()) is an ordered list as in the source.      *)
(* A color (an RGB tuple in the source) is a string naming it.             *)
(***************************************************************************)
EXTENDS Integers, Sequences, FiniteSets, TLC

\* Bounds of the model.
MaxRows == 2
MaxCols == 2
MaxCells == 4
Denom == 8
StreamLen == 2

\* An unbound integer local / an unbound color local.
NoneInt == -1
NoneColor == "None"
\* The placeholder None that line 71 puts in every cell.
NoneCell == <<>>

Quarter == Denom \div 4
Half == Denom \div 2
Draws == 0 .. (Denom - 1)

VARIABLES
    args,                       \* the four arguments given to __init__
    height_transition_matrix, height_prior_vector, heights, max_height,
    color_transition_matrix, color_prior_vector, colors,
    num_rows, num_cols,         \* arguments of get_building_info
    building_info,              \* local of get_building_info, its return value
    current_height, current_color, next_height, next_color, row, col,
    uniform_samples,            \* last value handed out by the random source
    num_draws,                  \* values handed out since it was (re)seeded
    seed,                       \* <<>>: unseeded source; else the replayed stream
    calls,                      \* calls of get_building_info so far
    earlier,                    \* grid returned by the previous call
    pc, error

fields == <<height_transition_matrix, height_prior_vector, heights, max_height,
            color_transition_matrix, color_prior_vector, colors>>
locals == <<building_info, current_height, current_color, next_height,
            next_color, row, col>>
vars == <<args, fields, num_rows, num_cols, locals, uniform_samples,
          num_draws, seed, calls, earlier, pc, error>>

----------------------------------------------------------------------------
\* Python dicts.

\* list(d.keys()) / list(d)
Keys(d) == [i \in 1..Len(d) |-> d[i][1]]
\* k in d
HasKey(d, k) == \E i \in 1..Len(d) : d[i][1] = k
\* d[k], for k in d
Get(d, k) == d[CHOOSE i \in 1..Len(d) : d[i][1] = k][2]
\* max(list)
MaxOf(s) == CHOOSE m \in {s[i] : i \in 1..Len(s)} :
                \A i \in 1..Len(s) : s[i] <= m

D2(k1, k2, a, b) == << <<k1, a>>, <<k2, b>> >>
D3(k1, k2, k3, a, b, c) == << <<k1, a>>, <<k2, b>>, <<k3, c>> >>

----------------------------------------------------------------------------
\* np.random.choice(a, p = p) for a of length n, with the uniform sample u.

RECURSIVE kahan_sum(_)
kahan_sum(p) == IF Len(p) = 0 THEN 0
                ELSE kahan_sum(SubSeq(p, 1, Len(p) - 1)) + p[Len(p)]

\* p.cumsum()
cumsum(p) == [i \in 1..Len(p) |-> kahan_sum(SubSeq(p, 1, i))]

\* cdf.searchsorted(u, side='left'): the number of entries < u.
searchsorted_left(cdf, u) == Cardinality({i \in 1..Len(cdf) : cdf[i] < u})

\* cdf.searchsorted(u, side='right'): the number of entries <= u.
searchsorted_right(cdf, u) == Cardinality({i \in 1..Len(cdf) : cdf[i] <= u})

Raise(e) == [err |-> e, idx |-> NoneInt]

\* choice with side='left' in the search.
choice_left(n, p, u) ==
    IF n = 0 THEN Raise("ValueError")
    ELSE IF Len(p) # n THEN Raise("ValueError")
    ELSE IF \E i \in 1..Len(p) : p[i] < 0 THEN Raise("ValueError")
    ELSE IF kahan_sum(p) # Denom THEN Raise("ValueError")
    ELSE LET cdf == cumsum(p)
             norm == [i \in 1..n |-> (cdf[i] * Denom) \div cdf[n]]
         IN  [err |-> "", idx |-> searchsorted_left(norm, u)]

\* choice that forgets p: a uniform pick, index floor(u * n).
choice_uniform(n, p, u) ==
    IF n = 0 THEN Raise("ValueError")
    ELSE [err |-> "", idx |-> (u * n) \div Denom]

\* choice without the checks of p.
choice_unchecked(n, p, u) ==
    IF n = 0 THEN Raise("ValueError")
    ELSE LET cdf == cumsum(p)
             norm == [i \in 1..n |-> (cdf[i] * Denom) \div cdf[n]]
         IN  [err |-> "", idx |-> searchsorted_right(norm, u)]

\* The result is the 0-based index into a, or the exception raised.  The
\* checks of p come before the sample is taken, so a rejected p consumes no
\* draw.  numpy accepts |sum - 1| <= sqrt(eps) ~ 1.5e-8, which is below the
\* resolution 1/Denom of the model: here a sum is accepted iff it is Denom.
choice(n, p, u) ==
    IF n = 0 THEN Raise("ValueError")
    ELSE IF Len(p) # n THEN Raise("ValueError")
    ELSE IF \E i \in 1..Len(p) : p[i] < 0 THEN Raise("ValueError")
    ELSE IF kahan_sum(p) # Denom THEN Raise("ValueError")
    ELSE LET cdf == cumsum(p)
             norm == [i \in 1..n |-> (cdf[i] * Denom) \div cdf[n]]
         IN  [err |-> "", idx |-> searchsorted_right(norm, u)]

\* [d[k] for k in keys] followed by choice: a missing key is a KeyError
\* raised by the list comprehension, before choice is entered.
choice_from(d, keys, u) ==
    IF \E i \in 1..Len(keys) : ~HasKey(d, keys[i]) THEN Raise("KeyError")
    ELSE choice(Len(keys), [i \in 1..Len(keys) |-> Get(d, keys[i])], u)

\* [matrix[current][k] for k in keys] followed by choice.  matrix[current]
\* is looked up once per key: with no key there is no lookup and choice is
\* entered with an empty list.
choice_next(matrix, current, keys, u) ==
    IF Len(keys) = 0 THEN choice(0, <<>>, u)
    ELSE IF ~HasKey(matrix, current) THEN Raise("KeyError")
    ELSE choice_from(Get(matrix, current), keys, u)

----------------------------------------------------------------------------
\* The models handed to the constructor.

Red == "red"
Blue == "blue"
Gold == "gold"

\* Two colors, well formed.
TwoColors == D2(Red, Blue, D2(Red, Blue, Half, Denom - Half),
                           D2(Red, Blue, Quarter, Denom - Quarter))
TwoColorsPrior == D2(Red, Blue, Quarter, Denom - Quarter)

\* Three colors, every row and the prior alike, as colors in main().
ColorRow == D3(Red, Blue, Gold, Quarter, Half, Denom - Quarter - Half)
MainColors == D3(Red, Blue, Gold, ColorRow, ColorRow, ColorRow)

\* Three colors, well formed, with a zero diagonal: no color follows itself.
AvoidSameColor == D3(Red, Blue, Gold,
                     D3(Red, Blue, Gold, 0, Half, Denom - Half),
                     D3(Red, Blue, Gold, Half, 0, Denom - Half),
                     D3(Red, Blue, Gold, Quarter, Denom - Quarter, 0))

\* Zero diagonal, as favor_mid_heights_9 in main().
FavorMid == D3(1, 2, 3, D3(1, 2, 3, 0, Half, Denom - Half),
                        D3(1, 2, 3, Half, 0, Denom - Half),
                        D3(1, 2, 3, Quarter, Denom - Quarter, 0))
FavorMidPrior == D3(1, 2, 3, Quarter, Quarter, Denom - 2 * Quarter)

\* Every state absorbing; the keys are not in increasing order.
Identity312 == D3(3, 1, 2, D3(3, 1, 2, Denom, 0, 0),
                           D3(3, 1, 2, 0, Denom, 0),
                           D3(3, 1, 2, 0, 0, Denom))
Identity012 == D3(0, 1, 2, D3(0, 1, 2, Denom, 0, 0),
                           D3(0, 1, 2, 0, Denom, 0),
                           D3(0, 1, 2, 0, 0, Denom))
\* State 0 absorbing; the rows of 1 and 2 are malformed but never reached.
AbsorbBadRows == D3(0, 1, 2, D3(0, 1, 2, Denom, 0, 0),
                             D3(0, 1, 2, Half, Half, Half),
                             D3(0, 1, 2, 0 - Quarter, Denom, Quarter))
\* The row of 1 sums to more than 1 and is reached from 0.
BadRowReached == D3(0, 1, 2, D3(0, 1, 2, 0, Denom, 0),
                             D3(0, 1, 2, Half, Half, Half),
                             D3(0, 1, 2, 0, 0, Denom))
\* The row of 1 has no entry for 2: the matrix is not square.
MissingKey == D3(0, 1, 2, D3(0, 1, 2, 0, Denom, 0),
                          D2(0, 1, Half, Denom - Half),
                          D3(0, 1, 2, 0, 0, Denom))
On0 == D3(0, 1, 2, Denom, 0, 0)

\* The row of blue sums to more than 1 and is reached from red.
BadColorRow == D2(Red, Blue, D2(Red, Blue, 0, Denom),
                             D2(Red, Blue, Half, Denom))
\* The row of red has no entry for blue.
MissingColor == D2(Red, Blue, << <<Red, Denom>> >>,
                              D2(Red, Blue, Half, Denom - Half))
OnRed == D2(Red, Blue, Denom, 0)

Model(htm, hpv, ctm, cpv) == [htm |-> htm, hpv |-> hpv, ctm |-> ctm, cpv |-> cpv]

Configs == {
    Model(FavorMid, FavorMidPrior, TwoColors, TwoColorsPrior),
    Model(FavorMid, FavorMidPrior, AvoidSameColor, ColorRow),
    Model(Identity312, D3(3, 1, 2, 0, Denom, 0), MainColors, ColorRow),
    Model(AbsorbBadRows, On0, TwoColors, TwoColorsPrior),
    Model(BadRowReached, On0, TwoColors, OnRed),
    Model(Identity012, D3(0, 1, 2, 0 - Quarter, Denom, Quarter), TwoColors, OnRed),
    Model(MissingKey, On0, TwoColors, OnRed),
    Model(<<>>, <<>>, TwoColors, TwoColorsPrior),
    Model(Identity012, On0, TwoColors, D2(Red, Blue, Half, Denom)),
    Model(Identity012, On0, BadColorRow, OnRed),
    Model(Identity012, On0, MissingColor, OnRed) }

\* The streams a seeded random source replays, cyclically.
Streams == [1..StreamLen -> Draws]

----------------------------------------------------------------------------
\* The random source: any value of [0,1) when unseeded, the next value of
\* the stream when seeded.
random_sample == IF seed = <<>> THEN Draws
                 ELSE {seed[(num_draws % Len(seed)) + 1]}

InitCommon ==
    /\ args \in Configs
    /\ height_transition_matrix = <<>> /\ height_prior_vector = <<>>
    /\ heights = <<>> /\ max_height = NoneInt
    /\ color_transition_matrix = <<>> /\ color_prior_vector = <<>>
    /\ colors = <<>>
    /\ num_rows = NoneInt /\ num_cols = NoneInt
    /\ building_info = <<>>
    /\ current_height = NoneInt /\ current_color = NoneColor
    /\ next_height = NoneInt /\ next_color = NoneColor
    /\ row = NoneInt /\ col = NoneInt
    /\ uniform_samples = NoneInt /\ num_draws = 0
    /\ calls = 0 /\ earlier = <<>>
    /\ pc = "new" /\ error = ""

Init == InitCommon /\ seed = <<>>

InitReplay == InitCommon /\ seed \in Streams

\* MarkovCity.__init__: no check of its arguments; max() of an empty list of
\* heights raises ValueError after the first three assignments.
Construct ==
    /\ pc = "new"
    /\ height_transition_matrix' = args.htm
    /\ height_prior_vector' = args.hpv
    /\ heights' = Keys(args.htm)
    /\ IF Len(args.htm) = 0
       THEN /\ pc' = "raised" /\ error' = "ValueError"
            /\ UNCHANGED <<max_height, color_transition_matrix,
                           color_prior_vector, colors>>
       ELSE /\ max_height' = MaxOf(Keys(args.htm))
            /\ color_transition_matrix' = args.ctm
            /\ color_prior_vector' = args.cpv
            /\ colors' = Keys(args.ctm)
            /\ pc' = "ready" /\ UNCHANGED error
    /\ UNCHANGED <<args, num_rows, num_cols, locals, uniform_samples,
                   num_draws, seed, calls, earlier>>

\* An entry that returns at once for an empty grid.
EnterEarlyReturn(R, C) ==
    /\ num_rows' = R /\ num_cols' = C
    /\ building_info' = [r \in 1..R |-> [c \in 1..C |-> NoneCell]]
    /\ current_height' = NoneInt /\ current_color' = NoneColor
    /\ next_height' = NoneInt /\ next_color' = NoneColor
    /\ row' = NoneInt /\ col' = NoneInt
    /\ calls' = calls + 1
    /\ pc' = IF R = 0 \/ C = 0 THEN "return" ELSE "initial_height"

\* Entry of get_building_info(R, C): a new frame, and line 71.
Enter(R, C) ==
    /\ num_rows' = R /\ num_cols' = C
    /\ building_info' = [r \in 1..R |-> [c \in 1..C |-> NoneCell]]
    /\ current_height' = NoneInt /\ current_color' = NoneColor
    /\ next_height' = NoneInt /\ next_color' = NoneColor
    /\ row' = NoneInt /\ col' = NoneInt
    /\ calls' = calls + 1
    /\ pc' = "initial_height"

CallGetBuildingInfo ==
    /\ pc = "ready"
    /\ \E R \in 0..MaxRows, C \in 0..MaxCols : R * C <= MaxCells /\ Enter(R, C)
    /\ UNCHANGED <<args, fields, uniform_samples, num_draws, seed, earlier, error>>

\* Failure of a draw: the exception leaves get_building_info.
Fail(e) ==
    /\ pc' = "raised" /\ error' = e
    /\ UNCHANGED <<uniform_samples, num_draws>>

\* Success of a draw: the random source handed out u.
Drawn(u) ==
    /\ uniform_samples' = u /\ num_draws' = num_draws + 1
    /\ UNCHANGED error

\* The initial height taken over from the grid of the previous call.
DrawInitialHeightCarried ==
    /\ pc = "initial_height"
    /\ \E u \in random_sample :
       IF calls > 1 /\ Len(earlier) > 0 /\ Len(earlier[1]) > 0
       THEN /\ current_height' = earlier[Len(earlier)][Len(earlier[1])][1]
            /\ pc' = "initial_color"
            /\ UNCHANGED <<uniform_samples, num_draws, error>>
       ELSE LET c == choice_from(height_prior_vector, heights, u)
            IN  IF c.err # ""
                THEN Fail(c.err) /\ UNCHANGED current_height
                ELSE /\ current_height' = heights[c.idx + 1]
                     /\ Drawn(u) /\ pc' = "initial_color"
    /\ UNCHANGED <<args, fields, num_rows, num_cols, building_info,
                   current_color, next_height, next_color, row, col,
                   seed, calls, earlier>>

\* Lines 74-77: the initial height, drawn from the height prior.
DrawInitialHeight ==
    /\ pc = "initial_height"
    /\ \E u \in random_sample :
       LET c == choice_from(height_prior_vector, heights, u)
       IN  IF c.err # ""
           THEN Fail(c.err) /\ UNCHANGED current_height
           ELSE /\ current_height' = heights[c.idx + 1]
                /\ Drawn(u) /\ pc' = "initial_color"
    /\ UNCHANGED <<args, fields, num_rows, num_cols, building_info,
                   current_color, next_height, next_color, row, col,
                   seed, calls, earlier>>

\* Lines 78-82: the initial color, drawn by index from the color prior;
\* then the loop headers of lines 84-85 are evaluated for the first time.
\* With rows but no columns the outer loop runs over every row with an
\* empty inner loop, which leaves row at num_rows - 1 and col unbound.
DrawInitialColor ==
    /\ pc = "initial_color"
    /\ \E u \in random_sample :
       LET c == choice_from(color_prior_vector, colors, u)
       IN  IF c.err # ""
           THEN Fail(c.err) /\ UNCHANGED <<current_color, row, col>>
           ELSE /\ current_color' = colors[c.idx + 1]
                /\ Drawn(u)
                /\ IF num_rows > 0 /\ num_cols > 0
                   THEN row' = 0 /\ col' = 0 /\ pc' = "next_height"
                   ELSE /\ pc' = "return"
                        /\ row' = IF num_rows > 0 THEN num_rows - 1 ELSE row
                        /\ UNCHANGED col
    /\ UNCHANGED <<args, fields, num_rows, num_cols, building_info,
                   current_height, next_height, next_color,
                   seed, calls, earlier>>

\* get_next_height that returns the index drawn, not the height at it.
GetNextHeightIndex ==
    /\ pc = "next_height"
    /\ \E u \in random_sample :
       LET c == choice_next(height_transition_matrix, current_height, heights, u)
       IN  IF c.err # ""
           THEN Fail(c.err) /\ UNCHANGED next_height
           ELSE /\ next_height' = c.idx
                /\ Drawn(u) /\ pc' = "next_color"
    /\ UNCHANGED <<args, fields, num_rows, num_cols, building_info,
                   current_height, current_color, next_color, row, col,
                   seed, calls, earlier>>

\* Line 86 with lines 36-45: the height of the cell (row, col).
GetNextHeight ==
    /\ pc = "next_height"
    /\ \E u \in random_sample :
       LET c == choice_next(height_transition_matrix, current_height, heights, u)
       IN  IF c.err # ""
           THEN Fail(c.err) /\ UNCHANGED next_height
           ELSE /\ next_height' = heights[c.idx + 1]
                /\ Drawn(u) /\ pc' = "next_color"
    /\ UNCHANGED <<args, fields, num_rows, num_cols, building_info,
                   current_height, current_color, next_color, row, col,
                   seed, calls, earlier>>

\* Line 87 with lines 48-60: the color of the cell (row, col).
GetNextColor ==
    /\ pc = "next_color"
    /\ \E u \in random_sample :
       LET c == choice_next(color_transition_matrix, current_color, colors, u)
       IN  IF c.err # ""
           THEN Fail(c.err) /\ UNCHANGED next_color
           ELSE /\ next_color' = colors[c.idx + 1]
                /\ Drawn(u) /\ pc' = "store"
    /\ UNCHANGED <<args, fields, num_rows, num_cols, building_info,
                   current_height, current_color, next_height, row, col,
                   seed, calls, earlier>>

\* The cell (row, col) of line 88, rows and columns counted from 0.
WithCell(grid, r, c, v) ==
    [grid EXCEPT ![r + 1] = [grid[r + 1] EXCEPT ![c + 1] = v]]

\* StoreCell that restarts both chains at the end of a row.
StoreCellRowReset ==
    /\ pc = "store"
    /\ building_info' = WithCell(building_info, row, col, <<next_height, next_color>>)
    /\ IF col + 1 < num_cols
       THEN /\ col' = col + 1 /\ pc' = "next_height" /\ UNCHANGED row
            /\ current_height' = next_height /\ current_color' = next_color
       ELSE /\ current_height' = heights[1] /\ current_color' = colors[1]
            /\ IF row + 1 < num_rows
               THEN row' = row + 1 /\ col' = 0 /\ pc' = "next_height"
               ELSE pc' = "return" /\ UNCHANGED <<row, col>>
    /\ UNCHANGED <<args, fields, num_rows, num_cols, next_height, next_color,
                   uniform_samples, num_draws, seed, calls, earlier, error>>

\* StoreCell of a column-major traversal.
StoreCellColumnMajor ==
    /\ pc = "store"
    /\ building_info' = WithCell(building_info, row, col, <<next_height, next_color>>)
    /\ current_height' = next_height /\ current_color' = next_color
    /\ IF row + 1 < num_rows
       THEN row' = row + 1 /\ pc' = "next_height" /\ UNCHANGED col
       ELSE IF col + 1 < num_cols
       THEN col' = col + 1 /\ row' = 0 /\ pc' = "next_height"
       ELSE pc' = "return" /\ UNCHANGED <<row, col>>
    /\ UNCHANGED <<args, fields, num_rows, num_cols, next_height, next_color,
                   uniform_samples, num_draws, seed, calls, earlier, error>>

\* StoreCell with the return inside the outer loop.
StoreCellReturnAfterRow ==
    /\ pc = "store"
    /\ building_info' = WithCell(building_info, row, col, <<next_height, next_color>>)
    /\ current_height' = next_height /\ current_color' = next_color
    /\ IF col + 1 < num_cols
       THEN col' = col + 1 /\ pc' = "next_height" /\ UNCHANGED row
       ELSE pc' = "return" /\ UNCHANGED <<row, col>>
    /\ UNCHANGED <<args, fields, num_rows, num_cols, next_height, next_color,
                   uniform_samples, num_draws, seed, calls, earlier, error>>

\* Lines 88-90, then the loop headers of lines 85 and 84: the pair is
\* stored, both chains advance, and the traversal moves to the next cell in
\* row-major order or leaves the loops.
StoreCell ==
    /\ pc = "store"
    /\ building_info' = WithCell(building_info, row, col, <<next_height, next_color>>)
    /\ current_height' = next_height /\ current_color' = next_color
    /\ IF col + 1 < num_cols
       THEN col' = col + 1 /\ pc' = "next_height" /\ UNCHANGED row
       ELSE IF row + 1 < num_rows
       THEN row' = row + 1 /\ col' = 0 /\ pc' = "next_height"
       ELSE pc' = "return" /\ UNCHANGED <<row, col>>
    /\ UNCHANGED <<args, fields, num_rows, num_cols, next_height, next_color,
                   uniform_samples, num_draws, seed, calls, earlier, error>>

\* Line 92.
Return ==
    /\ pc = "return"
    /\ pc' = "returned"
    /\ UNCHANGED <<args, fields, num_rows, num_cols, locals, uniform_samples,
                   num_draws, seed, calls, earlier, error>>

\* The random source is seeded again and get_building_info is called a
\* second time on the same object with the same dimensions.
CallAgain ==
    /\ pc = "returned" /\ calls = 1 /\ seed # <<>>
    /\ earlier' = building_info
    /\ num_draws' = 0 /\ uniform_samples' = NoneInt
    /\ Enter(num_rows, num_cols)
    /\ UNCHANGED <<args, fields, seed, error>>

Next ==
    \/ Construct
    \/ CallGetBuildingInfo
    \/ DrawInitialHeight
    \/ DrawInitialColor
    \/ GetNextHeight
    \/ GetNextColor
    \/ StoreCell
    \/ Return

NextReplay == Next \/ CallAgain

Spec == Init /\ [][Next]_vars

SpecReplay == InitReplay /\ [][NextReplay]_vars

----------------------------------------------------------------------------
\* Vocabulary of the properties.

\* The cell (r, c), counted from 0, holds a pair.
Filled(r, c) == building_info[r + 1][c + 1] # NoneCell
HeightAt(r, c) == building_info[r + 1][c + 1][1]
ColorAt(r, c) == building_info[r + 1][c + 1][2]
Cells == UNION {{<<r - 1, c - 1>> : c \in 1..Len(building_info[r])} :
                    r \in 1..Len(building_info)}
\* Position of a cell in the row-major order.
Position(r, c) == r * num_cols + c
InLoop == pc \in {"next_height", "next_color", "store"}
ZeroSized == num_rows = 0 \/ num_cols = 0

\* p[1] + ... + p[i]
RECURSIVE PartialSum(_, _)
PartialSum(p, i) == IF i = 0 THEN 0 ELSE PartialSum(p, i - 1) + p[i]

\* d gives every key of keys a probability >= 0, and they sum to 1.
IsDistribution(d, keys) ==
    /\ \A i \in 1..Len(keys) : HasKey(d, keys[i]) /\ Get(d, keys[i]) >= 0
    /\ PartialSum([i \in 1..Len(keys) |-> Get(d, keys[i])], Len(keys)) = Denom

KeySet(d) == {d[i][1] : i \in 1..Len(d)}

\* The matrix is square over its own key set and the prior ranges over it.
Closed(matrix, prior) ==
    /\ \A i \in 1..Len(matrix) : KeySet(matrix[i][2]) = KeySet(matrix)
    /\ KeySet(prior) = KeySet(matrix)

WellFormed(matrix, prior) ==
    /\ Closed(matrix, prior)
    /\ IsDistribution(prior, Keys(matrix))
    /\ \A i \in 1..Len(matrix) : IsDistribution(matrix[i][2], Keys(matrix))

ArgsWellFormed == WellFormed(args.htm, args.hpv) /\ WellFormed(args.ctm, args.cpv)

\* The state at the smallest index i with u < p[1] + ... + p[i], the last
\* state if there is none.
HalfOpenPick(keys, d, u) ==
    LET p == [i \in 1..Len(keys) |-> Get(d, keys[i])]
        below == {i \in 1..Len(keys) : u < PartialSum(p, i)}
    IN  IF below = {} THEN keys[Len(keys)]
        ELSE keys[CHOOSE i \in below : \A j \in below : i <= j]

----------------------------------------------------------------------------
\* C1: no reset between rows.  When the first cell of a row other than the
\* first is about to be sampled (its height, then its color), the current
\* height and the current color are the pair stored at the last cell of the
\* row before.
C1_ChainsContinueAcrossRows ==
    (pc \in {"next_height", "next_color"} /\ row >= 1 /\ col = 0)
        => /\ Filled(row - 1, num_cols - 1)
           /\ current_height = HeightAt(row - 1, num_cols - 1)
           /\ current_color = ColorAt(row - 1, num_cols - 1)

\* The second row of a grid of two columns is entered with a pair that a
\* restart of the chains would not give.
C1_Witness ==
    /\ pc = "next_color" /\ row = 1 /\ col = 0 /\ num_cols = 2
    /\ current_height # heights[1] /\ current_color # colors[1]
    /\ current_height = HeightAt(0, 1)

\* C2: row-major order and two draws per cell, height first.  Counting the
\* draws of the traversal from 0 (the two draws of the priors come before),
\* the height draw of the cell (row, col) is draw 2 * (row * C + col) and its
\* color draw is the next one; the cells filled before are exactly those
\* that precede (row, col) in row-major order.
C2_RowMajorTwoDrawsPerCell ==
    InLoop =>
        /\ pc = "next_height" => num_draws - 2 = 2 * Position(row, col)
        /\ pc = "next_color" => num_draws - 2 = 2 * Position(row, col) + 1
        /\ pc = "store" => num_draws - 2 = 2 * Position(row, col) + 2
        /\ \A rc \in Cells :
              Filled(rc[1], rc[2]) <=> Position(rc[1], rc[2]) < Position(row, col)

\* The color of the last cell of a 2 x 2 grid is about to be the 8th draw of
\* the traversal (draw number 7).
C2_Witness ==
    /\ pc = "next_color" /\ num_rows = 2 /\ num_cols = 2
    /\ row = 1 /\ col = 1 /\ num_draws = 9

\* C3 as stated: a call with num_rows = 0 or num_cols = 0 returns an empty
\* grid and has consumed no draw.
C3_ZeroSizedConsumesNoDraw ==
    (ZeroSized /\ pc = "returned") => num_draws = 0 /\ Cells = {}

\* C3 amended: such a call makes the two draws of the priors and no draw of
\* the traversal; it returns a grid without cells after exactly two draws,
\* and it raises only if a prior is not a distribution over the states.
C3_ZeroSizedConsumesTwoDraws ==
    ZeroSized =>
        /\ ~InLoop
        /\ pc \in {"return", "returned"} => num_draws = 2 /\ Cells = {}
        /\ pc = "raised" =>
              \/ ~IsDistribution(height_prior_vector, heights)
              \/ ~IsDistribution(color_prior_vector, colors)

\* A call for two rows of no columns has returned.
C3_Witness ==
    /\ pc = "returned" /\ num_rows = 2 /\ num_cols = 0
    /\ building_info = << <<>>, <<>> >> /\ num_draws = 2

\* C4: the grid returned has num_rows rows of num_cols cells, each cell a
\* (height, color) pair.
C4_ShapeAndNoPlaceholder ==
    pc = "returned" =>
        /\ Len(building_info) = num_rows
        /\ \A r \in 1..num_rows :
              /\ Len(building_info[r]) = num_cols
              /\ \A c \in 1..num_cols :
                    /\ building_info[r][c] # NoneCell
                    /\ Len(building_info[r][c]) = 2

\* A grid of two rows and one column has been returned.
C4_Witness ==
    /\ pc = "returned" /\ num_rows = 2 /\ num_cols = 1
    /\ Filled(1, 0)

\* C5: a second call on the same object, with the same dimensions and the
\* same sequence of draws, returns the same grid as the first.
C5_ReplayGivesSameGrid ==
    (pc = "returned" /\ calls = 2) => building_info = earlier

\* The second call has returned a 2 x 2 grid whose heights are not all the
\* same.
C5_Witness ==
    /\ pc = "returned" /\ calls = 2 /\ num_rows = 2 /\ num_cols = 2
    /\ HeightAt(0, 0) # HeightAt(1, 1)

\* C6 as stated: a model that has been constructed is well formed (square
\* over one state set, no negative probability, every row and the prior
\* summing to 1).
C6_ConstructedModelIsWellFormed ==
    pc = "ready" => ArgsWellFormed

\* C6 amended: the constructor checks nothing and takes over its arguments
\* as they are, failing only for an empty height matrix.  A malformed vector
\* is rejected when a draw is to be made from it: every vector a draw was
\* made from is a distribution over the model's states, and
\* get_building_info raises only for a model that is not well formed.
C6_MalformedRejectedWhenSampled ==
    /\ pc = "ready" =>
          /\ height_transition_matrix = args.htm
          /\ height_prior_vector = args.hpv
          /\ color_transition_matrix = args.ctm
          /\ color_prior_vector = args.cpv
    /\ (pc = "raised" /\ calls = 0) => Len(args.htm) = 0
    /\ (pc = "raised" /\ calls > 0) => ~ArgsWellFormed
    /\ pc = "initial_color" => IsDistribution(height_prior_vector, heights)
    /\ pc \in {"next_height", "next_color", "store", "return", "returned"} =>
          /\ IsDistribution(height_prior_vector, heights)
          /\ IsDistribution(color_prior_vector, colors)
    /\ pc \in {"next_color", "store"} =>
          IsDistribution(Get(height_transition_matrix, current_height), heights)
    /\ pc = "store" =>
          IsDistribution(Get(color_transition_matrix, current_color), colors)

\* A model with a malformed row was constructed and then rejected in the
\* middle of the traversal, after the first cell was stored.
C6_Witness ==
    /\ pc = "raised" /\ error = "ValueError" /\ calls = 1
    /\ num_rows > 0 /\ num_cols > 1 /\ Filled(0, 0)
    /\ ~ArgsWellFormed

\* C7: if the height prior gives probability 1 to a state s and the row of
\* s gives probability 1 to s, every cell that holds a pair has height s.
C7_AbsorbingHeight ==
    \A i \in 1..Len(heights) :
        LET s == heights[i]
        IN  ( /\ HasKey(height_prior_vector, s)
              /\ Get(height_prior_vector, s) = Denom
              /\ HasKey(Get(height_transition_matrix, s), s)
              /\ Get(Get(height_transition_matrix, s), s) = Denom )
            => \A rc \in Cells : Filled(rc[1], rc[2]) => HeightAt(rc[1], rc[2]) = s

\* A 2 x 2 grid was returned under a model whose absorbing start state is
\* not the first state of the list.
C7_Witness ==
    /\ pc = "returned" /\ num_rows = 2 /\ num_cols = 2
    /\ heights # <<>> /\ heights[1] # 1
    /\ Get(height_prior_vector, 1) = Denom
    /\ Get(Get(height_transition_matrix, 1), 1) = Denom
    /\ HeightAt(1, 1) = 1

\* C8: each draw returns the state at the smallest index i such that u is
\* below p[1] + ... + p[i] (half-open intervals), the last state if u is
\* below none: for the initial height, the initial color, the height of a
\* cell and the color of a cell.
C8_HalfOpenIntervals ==
    /\ pc = "initial_color" =>
          current_height = HalfOpenPick(heights, height_prior_vector, uniform_samples)
    /\ ((pc = "next_height" /\ row = 0 /\ col = 0) \/ (pc = "return" /\ ZeroSized)) =>
          current_color = HalfOpenPick(colors, color_prior_vector, uniform_samples)
    /\ pc = "next_color" =>
          next_height = HalfOpenPick(heights, Get(height_transition_matrix, current_height),
                                     uniform_samples)
    /\ pc = "store" =>
          next_color = HalfOpenPick(colors, Get(color_transition_matrix, current_color),
                                    uniform_samples)

\* A draw of exactly 0.25 from a row whose first probability is 0.25 gave
\* the second state.
C8_Witness ==
    /\ pc = "next_color" /\ uniform_samples = Quarter
    /\ Get(Get(height_transition_matrix, current_height), heights[1]) = Quarter
    /\ next_height = heights[2]

\* C9: under models that are closed over their key sets, the current height
\* and color are keys of their matrices once drawn, every stored height and
\* color is a state of its model, and no lookup fails with a KeyError.
C9_StatesStayInModel ==
    (Closed(args.htm, args.hpv) /\ Closed(args.ctm, args.cpv)) =>
        /\ current_height # NoneInt => HasKey(height_transition_matrix, current_height)
        /\ next_height # NoneInt => HasKey(height_transition_matrix, next_height)
        /\ current_color # NoneColor => HasKey(color_transition_matrix, current_color)
        /\ next_color # NoneColor => HasKey(color_transition_matrix, next_color)
        /\ \A rc \in Cells : Filled(rc[1], rc[2]) =>
              /\ HeightAt(rc[1], rc[2]) \in KeySet(height_transition_matrix)
              /\ ColorAt(rc[1], rc[2]) \in KeySet(color_transition_matrix)
        /\ error # "KeyError"

\* A 2 x 2 grid was returned under closed models whose height keys are not
\* the indices of the height list.
C9_Witness ==
    /\ pc = "returned" /\ num_rows = 2 /\ num_cols = 2
    /\ Closed(args.htm, args.hpv) /\ Closed(args.ctm, args.cpv)
    /\ heights = <<1, 2, 3>>
    /\ HeightAt(1, 1) = 3

\* The matrix has an entry from state a to state b, and it is positive.
PositiveEntry(matrix, a, b) ==
    /\ HasKey(matrix, a) /\ HasKey(Get(matrix, a), b)
    /\ Get(Get(matrix, a), b) > 0

\* Every state of the matrix has probability 0 of following itself.
ZeroDiagonal(matrix) ==
    \A i \in 1..Len(matrix) :
        HasKey(matrix[i][2], matrix[i][1]) /\ Get(matrix[i][2], matrix[i][1]) = 0

\* C10: a transition of probability 0 is never taken.  For two cells that
\* are consecutive in row-major order and both hold a pair, the matrix entry
\* from the earlier to the later height is positive, and the matrix entry
\* from the earlier to the later color is positive; so under a height matrix
\* with a zero diagonal they differ in height, and under a color matrix with
\* a zero diagonal they differ in color.
C10_NoZeroProbabilityTransition ==
    \A a \in Cells, b \in Cells :
        ( /\ Position(b[1], b[2]) = Position(a[1], a[2]) + 1
          /\ Filled(a[1], a[2]) /\ Filled(b[1], b[2]) )
        => /\ PositiveEntry(height_transition_matrix,
                            HeightAt(a[1], a[2]), HeightAt(b[1], b[2]))
           /\ PositiveEntry(color_transition_matrix,
                            ColorAt(a[1], a[2]), ColorAt(b[1], b[2]))
           /\ ZeroDiagonal(height_transition_matrix)
              => HeightAt(a[1], a[2]) # HeightAt(b[1], b[2])
           /\ ZeroDiagonal(color_transition_matrix)
              => ColorAt(a[1], a[2]) # ColorAt(b[1], b[2])

\* Under a zero-diagonal height matrix and a zero-diagonal color matrix a
\* 2 x 2 grid was returned whose first row ends with the first height and
\* the first color of the lists, the states a draw of 0 would repeat; the
\* second row starts with another height and another color.
C10_Witness ==
    /\ num_rows = 2 /\ num_cols = 2 /\ pc = "returned"
    /\ ZeroDiagonal(height_transition_matrix)
    /\ ZeroDiagonal(color_transition_matrix)
    /\ HeightAt(0, 1) = heights[1] /\ ColorAt(0, 1) = colors[1]
    /\ HeightAt(1, 0) # heights[1] /\ ColorAt(1, 0) # colors[1]

====
